---- MODULE Spec2Model ----
(***************************************************************************)
(* full-powershell: the queue and dispatcher of the PowerShell class.      *)
(*                                                                         *)
(* src/src/index.ts holds two definitions of the class:                    *)
(*   - lines 1-362, the closed$ implementation (impl = "closed"): call()   *)
(*     ticks from a microtask, a timeout unsubscribes the queue and        *)
(*     destroy()s the child, and the close event of the child runs init(); *)
(*   - lines 363-659, the pid-checking implementation (impl = "pid"):      *)
(*     call() ticks synchronously, a timeout reset()s the shell at once    *)
(*     and a command queued under another pid is failed when dequeued.     *)
(*                                                                         *)
(* Spec runs the first, SpecPid the second; SpecRepeatedDestroy runs the    *)
(* first with destroy() called once more often, SpecPromise the first with *)
(* promise() called on the subjects, SpecTwoShells two instances of the    *)
(* first in one process.  SpecReader runs a BufferReader (process.ts) on   *)
(* its own, fed with chunks of bytes, SpecFrames feeds it a stream of      *)
(* complete frames; SpecListen runs the map of listen on one payload,      *)
(* SpecProcess a PowerShellProcess until its child has closed, and         *)
(* SpecWrap applies wrap() of each wrapper to one command.                 *)
(*                                                                         *)
(* Node runs every callback to completion, so each action below is one     *)
(* callback (a user call, a microtask, a timer, a child event) with all    *)
(* the synchronous calls it makes.  The callbacks are written as operators *)
(* on a record s holding the whole state, so that nested synchronous calls *)
(* (subject.next -> subscriber -> call() -> tick$.next -> ...) compose.    *)
(***************************************************************************)
EXTENDS Integers, Sequences, FiniteSets, TLC

\* number of call() submissions explored
MaxCalls == 3
\* number of destroy() calls by the user explored
MaxDestroy == 1
\* number of payloads that are not JSON explored
MaxUndecodable == 1
\* calls the user makes on the first of two instances
MaxCallsEach == 2
\* bytes written to a BufferReader in all, and in one chunk
MaxInput == 8
MaxChunk == 2
\* frames in a stream of complete frames, and bytes in the payload of a frame
MaxFrames == 2
MaxPayload == 2
\* commands written to a PowerShellProcess
MaxWrites == 3

\* private timeout = 600000 (index.ts:131)
DefaultTimeout == 600000
\* new PowerShell({ timeout: 2000 }) (index.test.ts:387)
TestTimeout == 2000

VARIABLES
    impl,        \* which class definition runs: "closed" or "pid"
    timeout,     \* this.timeout
    queue,       \* this.queue: command ids, oldest first
    cmdPid,      \* Command.pid: pid of this.powershell when the command was queued
    reentrant,   \* whether the subscriber of the command's subject calls call() when notified
    nCalls,      \* commands created so far (ids are 1..nCalls, in submission order)
    pid,         \* this.powershell.pid: children are numbered in spawn order
    childState,  \* per child: "unborn", "running", "closed"
    stdinBuf,    \* per child: commands written to its stdin and not yet answered
    signals,     \* per child: signals delivered to it while it ran
    subscribed,  \* the tick$ subscription `sub` of initQueue is live
    active,      \* command of the live inner observable of concatMap (0: none)
    buffered,    \* ticks buffered by concatMap while an inner observable is live
    ready,       \* pid implementation: the `ready` flag of the live initQueue closure
    microtasks,  \* closed$ implementation: pending queueMicrotask(tick) callbacks
    pipelines,   \* closed$ implementation: per destroy() call, the next signal its timer sends
    initOnClose, \* closed$ implementation: `_ => this.init()` is subscribed to closed$
    nDestroy,    \* destroy() calls made by the user
    tmpFiles,    \* per child: its temp files out_verbose / out_debug exist
    handles,     \* closed$ implementation: per destroy() by the user, the closed$ it returned
    promises,    \* per command: the promise that promise() returned for its subject, if any
    timedOut,    \* history: the commands whose timeout timer fired
    undecodable, \* history: the commands whose envelope JSON.parse rejected
    decoded,     \* history: the envelopes the map of out$ decoded, with their non-empty arrays
    log,         \* history: what the dispatcher did to subjects, broadcasters and stdin, in order
    shell2,      \* a second PowerShell instance of the same process: its state, as one record
    buffer,      \* BufferReader.buffer: the bytes received and not yet dropped
    emitted,     \* history: per subject.next of a BufferReader, the buffer extract() found,
                 \* the bytes it returned and the buffer it left
    fed,         \* history: the bytes written to the BufferReader so far
    pending,     \* the bytes the child has produced on the pipe and the reader has not been given yet
    proc,        \* a PowerShellProcess (process.ts): its child, its temp files and its closed$
    payload,     \* the payload read_out.subject emits into the map of listen
    streams,     \* what the map of listen made of the payload
    params,      \* what write() passes to wrap()
    script       \* what wrap() returned, and which wrapper it was

shellVars == <<impl, timeout, queue, cmdPid, reentrant, nCalls, pid, childState, stdinBuf,
          signals, subscribed, active, buffered, ready, microtasks, pipelines,
          initOnClose, nDestroy, tmpFiles, handles, promises, timedOut, undecodable,
          decoded, log>>

readerVars == <<buffer, emitted, fed, pending>>

\* the parts of process.ts that are run on their own
unitVars == <<proc, payload, streams>>

\* the command given to wrap() and the script it returns
wrapVars == <<params, script>>

vars == <<shellVars, shell2, readerVars, unitVars, wrapVars>>

Cmds == 1..MaxCalls
\* every restart follows a write, and no command is written twice
Pids == 1..(MaxCalls + 1)

\* the six broadcasters, in the order initReaders emits on them
StreamOrder == <<"success", "error", "warning", "verbose", "debug", "info">>
\* the non-empty arrays of the envelopes the child is let to produce
Shapes == { {}, {"success", "error"} }

\* the state as one record
State == [impl |-> impl, timeout |-> timeout, queue |-> queue, cmdPid |-> cmdPid,
          reentrant |-> reentrant, nCalls |-> nCalls, pid |-> pid,
          childState |-> childState, stdinBuf |-> stdinBuf, signals |-> signals,
          subscribed |-> subscribed, active |-> active, buffered |-> buffered,
          ready |-> ready, microtasks |-> microtasks, pipelines |-> pipelines,
          initOnClose |-> initOnClose, nDestroy |-> nDestroy, tmpFiles |-> tmpFiles,
          handles |-> handles, promises |-> promises, timedOut |-> timedOut,
          undecodable |-> undecodable, decoded |-> decoded, log |-> log]

Becomes(s) ==
    /\ impl' = s.impl /\ timeout' = s.timeout /\ queue' = s.queue
    /\ cmdPid' = s.cmdPid /\ reentrant' = s.reentrant /\ nCalls' = s.nCalls
    /\ pid' = s.pid /\ childState' = s.childState /\ stdinBuf' = s.stdinBuf
    /\ signals' = s.signals /\ subscribed' = s.subscribed /\ active' = s.active
    /\ buffered' = s.buffered /\ ready' = s.ready /\ microtasks' = s.microtasks
    /\ pipelines' = s.pipelines /\ initOnClose' = s.initOnClose
    /\ nDestroy' = s.nDestroy /\ tmpFiles' = s.tmpFiles /\ handles' = s.handles
    /\ promises' = s.promises
    /\ timedOut' = s.timedOut /\ undecodable' = s.undecodable
    /\ decoded' = s.decoded /\ log' = s.log
    /\ UNCHANGED <<shell2, readerVars, unitVars, wrapVars>>

Ev(ev, c, p, arg, val) == [ev |-> ev, cmd |-> c, pid |-> p, arg |-> arg, val |-> val]
Log(s, e) == [s EXCEPT !.log = Append(@, e)]

\* ---------------------------------------------------------------- history
Events(l, ev, c) == { i \in 1..Len(l) : l[i].ev = ev /\ l[i].cmd = c }
Count(l, ev, c) == Cardinality(Events(l, ev, c))
\* the subject of command c has been completed or errored
Stopped(l, c) == Events(l, "complete", c) \cup Events(l, "error", c) # {}

RECURSIVE Call(_, _), TickPid(_), ResetPid(_)

\* ------------------------------------------------ the subject call() returns
\* A subscriber that reacts calls call() once more, from inside its handler.
React(s, c) ==
    IF s.reentrant[c] /\ s.nCalls < MaxCalls THEN Call(s, FALSE) ELSE s

\* promise(): firstValueFrom(this) subscribes to the subject when promise() is
\* called. st is "none" (promise() not called), "pending", "resolved" (with
\* val) or "rejected" (with the error arg, val).
NoPromise == [st |-> "none", arg |-> "", val |-> 0]

\* the subscriber of firstValueFrom settles its promise, if it is still subscribed
Settle(s, c, st, arg, val) ==
    IF s.promises[c].st = "pending"
    THEN [s EXCEPT !.promises[c] = [st |-> st, arg |-> arg, val |-> val]]
    ELSE s

\* promise(): Subject.subscribe on a subject that has errored hands the
\* subscriber the stored error, on one that has completed a bare complete,
\* which firstValueFrom turns into a rejection with EmptyError; otherwise the
\* subscriber is added to the observers
Promise(s, c) ==
    [s EXCEPT !.promises[c] =
        IF Events(s.log, "error", c) # {}
        THEN LET e == s.log[CHOOSE i \in Events(s.log, "error", c) : TRUE]
             IN [st |-> "rejected", arg |-> e.arg, val |-> e.val]
        ELSE IF Events(s.log, "complete", c) # {}
        THEN [st |-> "rejected", arg |-> "EmptyError", val |-> 0]
        ELSE [st |-> "pending", arg |-> "", val |-> 0]]

\* command.subject.next(result): e is the command whose envelope was decoded
SinkNext(s, c, e) ==
    LET s1 == Log(s, Ev("next", c, s.pid, "", e))
    IN IF Stopped(s.log, c) THEN s1 ELSE React(Settle(s1, c, "resolved", "", e), c)

\* command.subject.complete()
SinkComplete(s, c) ==
    LET s1 == Log(s, Ev("complete", c, s.pid, "", 0))
    IN IF Stopped(s.log, c) THEN s1 ELSE Settle(s1, c, "rejected", "EmptyError", 0)

\* command.subject.error(error): kind names the error, val the number in its message
SinkError(s, c, kind, val) ==
    LET s1 == Log(s, Ev("error", c, s.pid, kind, val))
    IN IF Stopped(s.log, c) THEN s1 ELSE React(Settle(s1, c, "rejected", kind, val), c)

\* ---------------------------------------------------------------- the child
\* this.stdin.write(Buffer.from(command.wrapped)): a child that has closed reads
\* nothing; one that runs reads the script, whose redirections 4>$vv 5>$dv
\* create the temp files. A write to the pipe of a child that has exited
\* reports an error (EPIPE), which no caller of write handles.
WriteStdin(s, c) ==
    IF s.childState[s.pid] = "running"
    THEN [Log(s, Ev("write", c, s.pid, "", 0))
             EXCEPT !.stdinBuf[s.pid] = Append(@, c), !.tmpFiles[s.pid] = TRUE]
    ELSE Log(s, Ev("write", c, s.pid, "write error", 0))

\* spawn(this.exe_path, args): the next pid, with empty pipes
Spawn(s) ==
    LET p == s.pid + 1
    IN [s EXCEPT !.pid = p, !.childState[p] = "running"]

\* this.powershell.kill(signal): delivered only to a child that still runs
Kill(s, sig) ==
    IF s.childState[s.pid] = "running"
    THEN [s EXCEPT !.signals[s.pid] = Append(@, sig)]
    ELSE s

\* a variant of the map of initReaders that emits on all six broadcasters
BroadcastEveryStream(s, e, shape) ==
    [s EXCEPT !.log = @ \o [i \in 1..Len(StreamOrder) |-> Ev("emit", e, s.pid, StreamOrder[i], 0)]]

\* the map of initReaders: one emission per non-empty array, in source order
Broadcast(s, e, shape) ==
    LET sel == SelectSeq(StreamOrder, LAMBDA x : x \in shape)
    IN [s EXCEPT !.log = @ \o [i \in 1..Len(sel) |-> Ev("emit", e, s.pid, sel[i], 0)]]

\* ------------------------------------------ closed$ implementation (1-362)
\* invoke: writes the command and subscribes take(1), timeout(this.timeout) to out$
Invoke(s, c) == [WriteStdin(s, c) EXCEPT !.active = c]

\* a variant of handler that takes the newest command of the queue
HandlerNewestFirst(s) ==
    IF s.queue = <<>> THEN s
    ELSE LET c == s.queue[Len(s.queue)]
         IN Invoke(Log([s EXCEPT !.queue = SubSeq(@, 1, Len(@) - 1)],
                       Ev("shift", c, s.pid, "", 0)), c)

\* handler: shifts the queue; an empty queue completes without invoking
Handler(s) ==
    IF s.queue = <<>> THEN s
    ELSE LET c == Head(s.queue)
         IN Invoke(Log([s EXCEPT !.queue = Tail(@)], Ev("shift", c, s.pid, "", 0)), c)

\* a variant of concatMap that subscribes handler() for every tick at once,
\* as mergeMap does
RECURSIVE DrainWithoutWaiting(_)
DrainWithoutWaiting(s) ==
    IF s.buffered = 0 THEN s
    ELSE DrainWithoutWaiting(Handler([s EXCEPT !.buffered = @ - 1]))

\* concatMap: with no live inner observable, subscribes handler() for the
\* buffered ticks, oldest first, until one of them stays live
RECURSIVE Drain(_)
Drain(s) ==
    IF s.active # 0 \/ s.buffered = 0 THEN s
    ELSE Drain(Handler([s EXCEPT !.buffered = @ - 1]))

\* this.tick$.next(..): lost when initQueue's subscription is gone
Tick(s) ==
    IF ~s.subscribed THEN s
    ELSE Drain([s EXCEPT !.buffered = @ + 1])

\* call(): queues the command and ticks from a microtask
CallClosed(s, re) ==
    LET c == s.nCalls + 1
    IN [s EXCEPT !.nCalls = c, !.queue = Append(@, c), !.cmdPid[c] = s.pid,
                 !.reentrant[c] = re, !.microtasks = @ + 1]

\* a variant of OnEnvelope that resolves the subject before the map broadcasts
OnEnvelopeSinkFirst(s, e, shape) ==
    LET c  == s.active
        s1 == SinkNext(s, c, e)
        s2 == Broadcast(s1, e, shape)
        s3 == SinkComplete(s2, c)
        s4 == Tick(s3)
    IN Drain([s4 EXCEPT !.active = 0])

\* a variant of OnEnvelope that takes a non-empty error array for a failure of
\* the command: it errors the subject and restarts as on a timeout
OnEnvelopeErrorArrayFails(s, e, shape) ==
    LET c  == s.active
        s1 == Broadcast(s, e, shape)
        s2 == SinkNext(s1, c, e)
        s3 == SinkComplete(s2, c)
        s4 == Tick(s3)
        f1 == SinkError(s1, c, "PowerShell error", 0)
        f2 == [f1 EXCEPT !.subscribed = FALSE, !.active = 0, !.buffered = 0]
    IN IF "error" \in shape
       THEN [f2 EXCEPT !.pipelines = Append(@, "SIGTERM"), !.initOnClose = TRUE]
       ELSE Drain([s4 EXCEPT !.active = 0])

\* out$ emits while a command is invoked: the map broadcasts, the subscriber's
\* next resolves the subject and ticks (buffered: the inner observable is still
\* live), then take(1) completes and concatMap goes on to the buffered ticks
OnEnvelope(s, e, shape) ==
    LET c  == s.active
        s1 == Broadcast(s, e, shape)
        s2 == SinkNext(s1, c, e)
        s3 == SinkComplete(s2, c)
        s4 == Tick(s3)
    IN Drain([s4 EXCEPT !.active = 0])

\* destroy(): a new timer pipeline that will send SIGTERM, then SIGINT, until closed$
Destroy(s) == [s EXCEPT !.pipelines = Append(@, "SIGTERM")]

\* a variant of OnTimeout whose error handler leaves the subscription in place
OnTimeoutStaysSubscribed(s) ==
    LET c  == s.active
        s1 == SinkError(s, c, "Command timed out", s.timeout)
    IN [Destroy(s1) EXCEPT !.initOnClose = TRUE]

\* a variant of OnTimeout that passes on the TimeoutError of rxjs as it is
OnTimeoutRawError(s) ==
    LET c  == s.active
        s1 == SinkError(s, c, "Timeout has occurred", 0)
        s2 == [s1 EXCEPT !.subscribed = FALSE, !.active = 0, !.buffered = 0]
    IN [Destroy(s2) EXCEPT !.initOnClose = TRUE]

\* a variant of OnTimeout that goes on to the next command on the same child
OnTimeoutKeepsChild(s) ==
    LET c  == s.active
        s1 == SinkError(s, c, "Command timed out", s.timeout)
    IN Tick([s1 EXCEPT !.active = 0])

\* a variant of OnTimeout that puts the command back at the head of the queue
OnTimeoutReplays(s) ==
    LET c  == s.active
        s1 == SinkError(s, c, "Command timed out", s.timeout)
        s2 == [s1 EXCEPT !.subscribed = FALSE, !.active = 0, !.buffered = 0,
                         !.queue = <<c>> \o @]
    IN [Destroy(s2) EXCEPT !.initOnClose = TRUE]

\* a variant of OnTimeout whose timeout also covers the command at the head of
\* the queue
OnTimeoutFailsQueued(s) ==
    LET c  == s.active
        s1 == SinkError(s, c, "Command timed out", s.timeout)
        s2 == IF s1.queue = <<>> THEN s1
              ELSE SinkError(s1, Head(s1.queue), "Command timed out", s.timeout)
        s3 == [s2 EXCEPT !.subscribed = FALSE, !.active = 0, !.buffered = 0]
    IN [Destroy(s3) EXCEPT !.initOnClose = TRUE]

\* the timeout of the invoked command fires: catchError errors the subject, the
\* subscriber's error handler unsubscribes and subscribes init to destroy()
OnTimeout(s) ==
    LET c  == s.active
        s1 == SinkError(s, c, "Command timed out", s.timeout)
        s2 == [s1 EXCEPT !.subscribed = FALSE, !.active = 0, !.buffered = 0]
    IN [Destroy(s2) EXCEPT !.initOnClose = TRUE]

\* a variant of OnDecodeError whose map feeds the broadcasters before it throws
OnDecodeErrorAfterBroadcast(s) ==
    LET c  == s.active
        s0 == Broadcast(s, c, {"success", "error"})
        s1 == SinkError(s0, c, "SyntaxError", 0)
        s2 == [s1 EXCEPT !.subscribed = FALSE, !.active = 0, !.buffered = 0]
    IN [Destroy(s2) EXCEPT !.initOnClose = TRUE]

\* a variant of OnDecodeError whose error handler goes on with the same child
OnDecodeErrorKeepsChild(s) ==
    LET c  == s.active
        s1 == SinkError(s, c, "SyntaxError", 0)
    IN Drain([Tick(s1) EXCEPT !.active = 0])

\* JSON.parse throws in the map of out$: nothing is broadcast, catchError
\* errors the subject with the SyntaxError as it is, and the error handler
\* does what it does on a timeout
OnDecodeError(s) ==
    LET c  == s.active
        s1 == SinkError(s, c, "SyntaxError", 0)
        s2 == [s1 EXCEPT !.subscribed = FALSE, !.active = 0, !.buffered = 0]
    IN [Destroy(s2) EXCEPT !.initOnClose = TRUE]

\* a variant of init() whose initQueue does not tick
InitWithoutTick(s) ==
    LET s1 == Spawn([s EXCEPT !.initOnClose = FALSE])
    IN [s1 EXCEPT !.subscribed = TRUE, !.active = 0, !.buffered = 0]

\* init(): new closed$, initProcess, initReaders, initQueue and its first tick
Init_(s) ==
    LET s1 == Spawn([s EXCEPT !.initOnClose = FALSE])
    IN Tick([s1 EXCEPT !.subscribed = TRUE, !.active = 0, !.buffered = 0])

\* closed$.next(true) reaching the subscribers of the handles destroy() returned
\* for child p: those taken before (after) the error handler subscribed init
\* are notified before (after) init runs
ResolveHandles(s, p, late) ==
    [s EXCEPT !.handles =
        [i \in 1..Len(@) |->
            IF @[i].gen = p /\ ~@[i].resolved /\ @[i].restarting = late
            THEN [@[i] EXCEPT !.resolved = TRUE]
            ELSE @[i]]]

\* a variant of the close listener that leaves the temp files in place
OnCloseKeepsTempFiles(s, p) ==
    LET s1 == [s EXCEPT !.childState[p] = "closed", !.stdinBuf[p] = <<>>,
                        !.pipelines = <<>>]
        s2 == ResolveHandles(s1, p, FALSE)
    IN IF s.initOnClose THEN ResolveHandles(Init_(s2), p, TRUE) ELSE s2

\* the close event of the child: the listener removes the two temp files, then
\* closed$.next(true) ends the signal pipelines (takeUntil), resolves the
\* handles of destroy() and runs init when the error handler subscribed it
OnClose(s, p) ==
    LET s1 == [s EXCEPT !.childState[p] = "closed", !.stdinBuf[p] = <<>>,
                        !.tmpFiles[p] = FALSE, !.pipelines = <<>>]
        s2 == ResolveHandles(s1, p, FALSE)
    IN IF s.initOnClose THEN ResolveHandles(Init_(s2), p, TRUE) ELSE s2

\* a delayed signal of pipeline i is sent; after SIGINT the pipeline is done
OnSignalTimer(s, i) ==
    LET sig == s.pipelines[i]
        s1  == Kill(s, sig)
    IN IF sig = "SIGTERM"
       THEN [s1 EXCEPT !.pipelines[i] = "SIGINT"]
       ELSE [s1 EXCEPT !.pipelines = SubSeq(@, 1, i - 1) \o SubSeq(@, i + 1, Len(@))]

\* a variant of TickPid whose project does not compare the pids
TickPidWithoutPidCheck(s) ==
    IF ~s.ready \/ s.queue = <<>> THEN s
    ELSE LET c  == Head(s.queue)
             s1 == Log([s EXCEPT !.queue = Tail(@), !.ready = FALSE],
                       Ev("shift", c, s.pid, "", 0))
         IN [WriteStdin(s1, c) EXCEPT !.active = c]

\* ------------------------------------------ pid implementation (363-659)
\* The pipe of initQueue on one tick: filter(ready), shift, filter(Boolean),
\* ready = false, then the project of concatMap.  A tick passes the filter only
\* when no command is invoked (ready is set again in the tap of the invoked
\* command, whose take(1) completes in the same callback), so the project runs
\* in the callback of the tick.
TickPid(s) ==
    IF ~s.ready \/ s.queue = <<>> THEN s
    ELSE LET c  == Head(s.queue)
             s1 == Log([s EXCEPT !.queue = Tail(@), !.ready = FALSE],
                       Ev("shift", c, s.pid, "", 0))
         IN IF s1.pid # s1.cmdPid[c]
            \* sub.unsubscribe(); this.reset(); command.subject.error(err); throw err
            \* (the throw reaches a subscriber that is already unsubscribed)
            THEN SinkError(ResetPid(s1), c, "pid has changed", 0)
            ELSE [WriteStdin(s1, c) EXCEPT !.active = c]

\* reset(): kill(), initPowerShell, initReaders, initQueue (ready = true, tick)
ResetPid(s) ==
    TickPid([Spawn(Kill(s, "SIGTERM")) EXCEPT !.ready = TRUE, !.active = 0])

\* call(): queues the command and ticks at once
CallPid(s, re) ==
    LET c == s.nCalls + 1
    IN TickPid([s EXCEPT !.nCalls = c, !.queue = Append(@, c), !.cmdPid[c] = s.pid,
                         !.reentrant[c] = re])

\* out$ emits while a command is invoked: the map broadcasts, the tap resolves
\* the subject, sets ready and ticks
OnEnvelopePid(s, e, shape) ==
    LET c  == s.active
        s1 == Broadcast(s, e, shape)
        s2 == SinkNext(s1, c, e)
        s3 == SinkComplete(s2, c)
    IN TickPid([s3 EXCEPT !.ready = TRUE, !.active = 0])

\* the timeout fires: catchError unsubscribes, resets, then errors the subject
\* with the TimeoutError of rxjs as it is
OnTimeoutPid(s) ==
    LET c == s.active
    IN SinkError(ResetPid([s EXCEPT !.active = 0]), c, "Timeout has occurred", 0)

\* JSON.parse throws in the map of out$: catchError does what it does on a timeout
OnDecodeErrorPid(s) ==
    LET c == s.active
    IN SinkError(ResetPid([s EXCEPT !.active = 0]), c, "SyntaxError", 0)

\* destroy(): this.powershell.kill()
DestroyPid(s) == Kill(s, "SIGTERM")

\* the child closes: this class listens to no close event
OnClosePid(s, p) ==
    [s EXCEPT !.childState[p] = "closed", !.stdinBuf[p] = <<>>]

\* ------------------------------------------------------------ both classes
Call(s, re) == IF s.impl = "closed" THEN CallClosed(s, re) ELSE CallPid(s, re)

\* ----------------------------------------------------------------- actions
\* new PowerShell() of the closed$ class, with the default timeout, as a record
Shell0 ==
    [impl |-> "closed", timeout |-> DefaultTimeout, queue |-> <<>>,
     cmdPid |-> [c \in Cmds |-> 0], reentrant |-> [c \in Cmds |-> FALSE],
     nCalls |-> 0, pid |-> 1,
     childState |-> [p \in Pids |-> IF p = 1 THEN "running" ELSE "unborn"],
     stdinBuf |-> [p \in Pids |-> <<>>], signals |-> [p \in Pids |-> <<>>],
     subscribed |-> TRUE, active |-> 0, buffered |-> 0, ready |-> TRUE,
     microtasks |-> 0, pipelines |-> <<>>, initOnClose |-> FALSE, nDestroy |-> 0,
     tmpFiles |-> [p \in Pids |-> FALSE], handles |-> <<>>,
     promises |-> [c \in Cmds |-> NoPromise], timedOut |-> {}, undecodable |-> {},
     decoded |-> <<>>, log |-> <<>>]

\* ------------------------------------------------------ the map of listen
\* JSON texts and what JSON.parse makes of them. A value is an array (of
\* strings), a text that has not been parsed, or nothing; a text is a string.
StreamFields == {"success", "error", "warning", "verbose", "debug", "info"}
Texts == {"[]", "[\"a\"]", "a"}
ArrayValue(items) == [type |-> "array", items |-> items, text |-> ""]
TextValue(text) == [type |-> "string", items |-> <<>>, text |-> text]

\* JSON.parse(text): the value, or a SyntaxError
JSONParse(text) ==
    CASE text = "[]" -> [ok |-> TRUE, value |-> ArrayValue(<<>>)]
      [] text = "[\"a\"]" -> [ok |-> TRUE, value |-> ArrayValue(<<"a">>)]
      [] OTHER -> [ok |-> FALSE, value |-> TextValue("SyntaxError")]

\* the format field of the envelope: "json", "string", or JSON null
Formats == {"json", "string", "null"}

\* a variant of parseStream that parses whatever the format is
ParseStreamAlways(stream, format) == JSONParse(stream)

\* parseStream(stream, format): JSON.parse(stream) if format != null, else stream
ParseStream(stream, format) ==
    IF format # "null" THEN JSONParse(stream)
    ELSE [ok |-> TRUE, value |-> TextValue(stream)]

\* the payloads: not JSON, or the JSON of an envelope whose result has the
\* six stream fields and format
Payload0 == [json : BOOLEAN, format : Formats, success : Texts, error : Texts,
             warning : Texts, verbose : Texts, debug : Texts, info : Texts]
NoPayload == [json |-> FALSE, format |-> "null", success |-> "a", error |-> "a",
              warning |-> "a", verbose |-> "a", debug |-> "a", info |-> "a"]
NoStreams == [status |-> "none", value |-> [f \in StreamFields |-> TextValue("")]]

\* the map of listen: JSON.parse(res).result, then parseStream for each of the
\* six fields; the first throw ends it
Decode(res) ==
    LET parsed == [success |-> ParseStream(res.success, res.format),
                   error   |-> ParseStream(res.error, "json"),
                   warning |-> ParseStream(res.warning, "json"),
                   verbose |-> ParseStream(res.verbose, "string"),
                   debug   |-> ParseStream(res.debug, "string"),
                   info    |-> ParseStream(res.info, "json")]
    IN IF ~res.json \/ \E f \in StreamFields : ~parsed[f].ok
       THEN [status |-> "threw", value |-> NoStreams.value]
       ELSE [status |-> "ok", value |-> [f \in StreamFields |-> parsed[f].value]]

\* ------------------------------------------------------------- the wrapper
\* the delimiters of the class, as the text they are
delimit_head_text == "F0ZU7Wm1p4"
delimit_tail_text == "AdBmCXEdsB"

\* String.prototype.includes
StringIncludes(s, v) ==
    \E i \in 1..(Len(s) - Len(v) + 1) : SubSeq(s, i, i + Len(v) - 1) = v

\* a slice that keeps the whole text in the first part: the text is no longer split
sliceWhole(s, start, end) == IF start = 0 THEN s ELSE ""

\* String.prototype.slice(start, end) for 0 <= start, 0 <= end
slice(s, start, end) ==
    LET from == IF start < Len(s) THEN start ELSE Len(s)
        to == IF end < Len(s) THEN end ELSE Len(s)
    IN SubSeq(s, from + 1, to)

\* `${verbose}` of a boolean
BoolText(b) == IF b THEN "true" ELSE "false"

\* format ? `"${format}"` : "$null"
FormatText(format) == IF format # "null" THEN "\"" \o format \o "\"" ELSE "$null"

serialise(variable, format) ==
    CASE format = "json" -> "ConvertTo-Json -InputObject @(" \o variable \o ") -Compress"
      [] format = "string" ->
            "ConvertTo-Json -InputObject @(" \o variable
                \o " | ForEach-Object { Out-String -InputObject $_ }) -Compress"
      [] OTHER -> "@(" \o variable \o ")"

\* the wrapper of the current class: the envelope between a head and a tail
wrap(p) ==
       "\n"
    \o "    $OutputEncoding = [Console]::OutputEncoding = [Text.UTF8Encoding]::UTF8;\n"
    \o "\n"
    \o "    $verboseEnabled = $" \o BoolText(p.verbose) \o "\n"
    \o "    $debugEnabled = $" \o BoolText(p.debug) \o "\n"
    \o "\n"
    \o "    $vv = if ($verboseEnabled) { \"" \o p.out_verbose \o "\" } else { $null }\n"
    \o "    $dv = if ($debugEnabled) { \"" \o p.out_debug \o "\" } else { $null }\n"
    \o "\n"
    \o "    $delimit_head_A = \"" \o slice(p.delimit_head, 0, 5) \o "\"\n"
    \o "    $delimit_head_B = \"" \o slice(p.delimit_head, 5, Len(p.delimit_head)) \o "\"\n"
    \o "    $delimit_tail_A = \"" \o slice(p.delimit_tail, 0, 5) \o "\"\n"
    \o "    $delimit_tail_B = \"" \o slice(p.delimit_tail, 5, Len(p.delimit_tail)) \o "\"\n"
    \o "    try {\n"
    \o "        Invoke-Command -NoNewScope -ScriptBlock {\n"
    \o "            " \o p.command \o "\n"
    \o "        } 1>$null 2>$null 3>$null 4>$vv 5>$dv 6>$null -ov ov -ev ev -wv wv -iv iv\n"
    \o "    } \n"
    \o "    catch {\n"
    \o "        $ev = $_\n"
    \o "    }\n"
    \o "    finally {\n"
    \o "\n"
    \o "        $verbose = if ($verboseEnabled) { Get-Content $vv } else { @() }\n"
    \o "        $debug = if ($debugEnabled) { Get-Content $dv } else { @() }\n"
    \o "\n"
    \o "        if ($verboseEnabled) {\n"
    \o "            Remove-Item $vv | Out-Null\n"
    \o "        }\n"
    \o "        if ($debugEnabled) {\n"
    \o "            Remove-Item $dv | Out-Null\n"
    \o "        }\n"
    \o "\n"
    \o "        $rxjs_pwsh = [pscustomobject]@{ \n"
    \o "            result = [pscustomobject]@{ \n"
    \o "                success = " \o serialise("$ov", p.format) \o "\n"
    \o "                error = " \o serialise("$ev", "string") \o "\n"
    \o "                warning = " \o serialise("$wv", "string") \o "\n"
    \o "                verbose = " \o serialise("$verbose", "string") \o "\n"
    \o "                debug = " \o serialise("$debug", "string") \o "\n"
    \o "                info = " \o serialise("$iv", "string") \o "\n"
    \o "                format = " \o FormatText(p.format) \o "\n"
    \o "            }\n"
    \o "        }\n"
    \o "        $rxjs_pwsh_json = $rxjs_pwsh | ConvertTo-Json -Depth 2\n"
    \o "        \"$delimit_head_A$delimit_head_B\" + $rxjs_pwsh_json + \"$delimit_tail_A$delimit_tail_B\"\n"
    \o "    }\n"
    \o "    " \o p.EOL \o "\n"
    \o "    "

\* the formats of the first wrapper
FormatsEOI == {"json", "string", "csv", "html"}

serialiseEOI(variable, format) ==
    CASE format = "json" -> "ConvertTo-Json -InputObject @(" \o variable \o ") -Compress"
      [] format = "string" -> "@(" \o variable \o " | ForEach-Object { $_ | Out-String })"
      [] format = "csv" -> "ConvertTo-Csv -InputObject " \o variable
      [] format = "html" -> variable \o " | ConvertTo-Html"
      [] OTHER -> "undefined"

\* the first wrapper: one delimiter, written after the envelope
wrapEOI(p) ==
       "\n"
    \o "    $rxjs_pwsh_1 = @();\n"
    \o "    try {\n"
    \o "        Invoke-Command -ScriptBlock {\n"
    \o "            " \o p.command \o "\n"
    \o "        } *>$null -OutVariable rxjs_pwsh_1 -ErrorVariable rxjs_pwsh_2 -WarningVariable rxjs_pwsh_3 -InformationVariable rxjs_pwsh_6\n"
    \o "    } \n"
    \o "    catch { }\n"
    \o "    finally {\n"
    \o "        $rxjs_pwsh = [pscustomobject]@{ \n"
    \o "            result = [pscustomobject]@{ \n"
    \o "                success = " \o serialiseEOI("$rxjs_pwsh_1", p.format) \o "\n"
    \o "                error = @($rxjs_pwsh_2 | ForEach-Object { $_ | Out-String })\n"
    \o "                warning = @($rxjs_pwsh_3 | ForEach-Object { $_ | Out-String })\n"
    \o "                info = @($rxjs_pwsh_6 | ForEach-Object { $_ | Out-String })\n"
    \o "                format = \"" \o p.format \o "\"\n"
    \o "            }\n"
    \o "        }\n"
    \o "        $rxjs_pwsh | ConvertTo-Json\n"
    \o "    }\n"
    \o "    $EOI_1 = \"" \o slice(p.EOI, 0, 5) \o "\"\n"
    \o "    $EOI_2 = \"" \o slice(p.EOI, 5, Len(p.EOI)) \o "\"\n"
    \o "    [Console]::Out.Write(\"$EOI_1$EOI_2\")\n"
    \o "    " \o p.EOL \o "\n"
    \o "    "

\* os.EOL
EOLs == {"\n", "\r\n"}

\* the command fragments of the user: pieces of the delimiters, alone, in pairs
\* and next to other text
Pieces == {"", "F0ZU7", "Wm1p4", "AdBmC", "XEdsB", "Get-Date "}
Commands == {a \o b : a, b \in Pieces}

\* options.tmp_dir, and randomBytes(8).toString('hex')
TmpDirs == {"", "/tmp/XEdsB", "F0ZU7Wm1p"}
Prefixes == {"4b1d4b1d4b1d4b1d"}

HasDelimiter(s) ==
    StringIncludes(s, delimit_head_text) \/ StringIncludes(s, delimit_tail_text)

\* what write() passes to wrap()
Params0 ==
    {[command |-> c, delimit_head |-> delimit_head_text, delimit_tail |-> delimit_tail_text,
      out_verbose |-> d \o x \o "_fps_verbose.tmp", out_debug |-> d \o x \o "_fps_debug.tmp",
      format |-> f, verbose |-> v, debug |-> g, EOL |-> e] :
        c \in Commands, d \in TmpDirs, x \in Prefixes, f \in Formats,
        v \in BOOLEAN, g \in BOOLEAN, e \in EOLs}

NoParams ==
    [command |-> "", delimit_head |-> delimit_head_text, delimit_tail |-> delimit_tail_text,
     out_verbose |-> "", out_debug |-> "", format |-> "null", verbose |-> FALSE,
     debug |-> FALSE, EOL |-> "\n"]

NoScript == [by |-> "none", EOI |-> "", text |-> ""]

\* new PowerShellProcess(): the child runs, stdin is empty, no temp file
\* exists, closed$ has emitted nothing. script is the command the child is
\* running (its redirections done, its finally block not yet), or <<>>;
\* unlinked is the history of the files the 'close' listener removed.
Proc0 ==
    [state |-> "running", stdin |-> <<>>, script |-> <<>>, files |-> {},
     closed |-> <<>>, threw |-> FALSE, unlinked |-> {}, nWrites |-> 0]

InitCommon ==
    /\ timeout \in {DefaultTimeout, TestTimeout}
    /\ queue = <<>>
    /\ cmdPid = [c \in Cmds |-> 0]
    /\ reentrant = [c \in Cmds |-> FALSE]
    /\ nCalls = 0
    /\ pid = 1
    /\ childState = [p \in Pids |-> IF p = 1 THEN "running" ELSE "unborn"]
    /\ stdinBuf = [p \in Pids |-> <<>>]
    /\ signals = [p \in Pids |-> <<>>]
    /\ subscribed = TRUE
    /\ active = 0
    /\ buffered = 0
    /\ ready = TRUE
    /\ microtasks = 0
    /\ pipelines = <<>>
    /\ initOnClose = FALSE
    /\ nDestroy = 0
    /\ tmpFiles = [p \in Pids |-> FALSE]
    /\ handles = <<>>
    /\ promises = [c \in Cmds |-> NoPromise]
    /\ timedOut = {}
    /\ undecodable = {}
    /\ decoded = <<>>
    /\ log = <<>>
    /\ shell2 = Shell0
    /\ proc = Proc0
    /\ streams = NoStreams
    /\ buffer = <<>>
    /\ emitted = <<>>
    /\ fed = <<>>
    /\ script = NoScript

\* new PowerShell(options) of the closed$ class
Init ==
    /\ impl = "closed" /\ InitCommon /\ pending = <<>> /\ payload = NoPayload
    /\ params = NoParams

\* new PowerShell() of the closed$ class, with no options
InitDefault == Init /\ timeout = DefaultTimeout

\* new PowerShell(options) of the pid class
InitPid ==
    /\ impl = "pid" /\ InitCommon /\ pending = <<>> /\ payload = NoPayload
    /\ params = NoParams

\* the user calls call(); the subscriber of the returned subject may react
UserCall ==
    /\ nCalls < MaxCalls
    /\ \E re \in BOOLEAN : Becomes(Call(State, re))

\* a queueMicrotask(() => this.tick$.next('call queued')) callback runs
Microtask ==
    /\ microtasks > 0
    /\ Becomes(Tick([State EXCEPT !.microtasks = @ - 1]))

\* child p answers the oldest command on its stdin: its reader emits the
\* payload, which reaches the invoked command only through the current out$;
\* the payload is an envelope with some non-empty arrays, or not JSON at all
ChildReply(p) ==
    /\ microtasks = 0
    /\ childState[p] = "running"
    /\ stdinBuf[p] # <<>>
    /\ \E shape \in Shapes, json \in BOOLEAN :
         /\ ~json => shape = {} /\ Cardinality(undecodable) < MaxUndecodable
         /\ LET e  == Head(stdinBuf[p])
                s0 == [State EXCEPT !.stdinBuf[p] = Tail(@)]
                s1 == [s0 EXCEPT !.decoded = Append(@, [env |-> e, to |-> active, shape |-> shape])]
                s2 == [s0 EXCEPT !.undecodable = @ \cup {active}]
            IN IF p = pid /\ subscribed /\ active # 0
               THEN IF json
                    THEN Becomes(IF impl = "closed" THEN OnEnvelope(s1, e, shape)
                                                    ELSE OnEnvelopePid(s1, e, shape))
                    ELSE Becomes(IF impl = "closed" THEN OnDecodeError(s2)
                                                    ELSE OnDecodeErrorPid(s2))
               ELSE Becomes(s0)

\* the timer of timeout(this.timeout) fires for the invoked command
Timeout ==
    /\ microtasks = 0
    /\ subscribed
    /\ active # 0
    /\ LET s0 == [State EXCEPT !.timedOut = @ \cup {active}]
       IN Becomes(IF impl = "closed" THEN OnTimeout(s0) ELSE OnTimeoutPid(s0))

\* child p closes, after a signal or on its own
ChildClose(p) ==
    /\ microtasks = 0
    /\ childState[p] = "running"
    /\ Becomes(IF impl = "closed" THEN OnClose(State, p) ELSE OnClosePid(State, p))

\* a delay(3000) timer of a destroy() pipeline fires
SignalTimer(i) ==
    /\ microtasks = 0
    /\ i \in 1..Len(pipelines)
    /\ Becomes(OnSignalTimer(State, i))

\* the user calls destroy(), for at most the limit-th time; the closed$ class
\* returns this.closed$, which the user subscribes to, the pid class a boolean
DestroyCall(limit) ==
    /\ nDestroy < limit
    /\ Becomes(IF impl = "closed"
               THEN [Destroy(State) EXCEPT
                        !.nDestroy = @ + 1,
                        !.handles = Append(@, [gen |-> pid, restarting |-> initOnClose,
                                               resolved |-> FALSE])]
               ELSE [DestroyPid(State) EXCEPT !.nDestroy = @ + 1])

UserDestroy == DestroyCall(MaxDestroy)

\* the user calls destroy(), possibly once more than MaxDestroy times
UserDestroyAgain == DestroyCall(MaxDestroy + 1)

\* the user's first call(); later commands come from subscribers that react
UserCallFirst == nCalls = 0 /\ UserCall

Next ==
    \/ UserCall
    \/ Microtask
    \/ \E p \in Pids : ChildReply(p)
    \/ Timeout
    \/ \E p \in Pids : ChildClose(p)
    \/ \E i \in 1..MaxCalls + MaxDestroy : SignalTimer(i)
    \/ UserDestroy

NextPid ==
    \/ UserCall
    \/ \E p \in Pids : ChildReply(p)
    \/ Timeout
    \/ \E p \in Pids : ChildClose(p)
    \/ UserDestroy

\* the closed$ class (index.ts 1-362)
Spec == Init /\ [][Next]_vars

\* the user calls promise() on the subject that call() returned for command c,
\* at any time after the call
RequestPromise(c) ==
    /\ microtasks = 0
    /\ c \in 1..nCalls
    /\ promises[c].st = "none"
    /\ Becomes(Promise(State, c))

\* the closed$ class with promise() called on the subjects, on a shell whose
\* user submits one command and whose subscribers may submit more
NextPromise ==
    \/ UserCallFirst
    \/ Microtask
    \/ \E p \in Pids : ChildReply(p)
    \/ Timeout
    \/ \E p \in Pids : ChildClose(p)
    \/ \E i \in 1..MaxCalls : SignalTimer(i)
    \/ \E c \in Cmds : RequestPromise(c)

SpecPromise == Init /\ [][NextPromise]_vars

\* ------------------------------------------------- two instances, one process
\* Both instances are of the closed$ class. Each is constructed by its own
\* new PowerShell(): every field of the class is an instance field, init()
\* spawns a child of its own and draws the prefix of its temp-file names from
\* randomBytes(8); two draws are taken to differ, so that each instance's
\* temp files are its own. What the instances share is the event loop of the
\* process: a timer or I/O callback of either runs only when no microtask of
\* either is pending.
NoMicrotask == microtasks = 0 /\ shell2.microtasks = 0

\* the step of the second instance that takes it to t
Shell2Becomes(t) == shell2' = t /\ UNCHANGED <<shellVars, readerVars, unitVars, wrapVars>>

\* the user calls call() on the first instance
Shell1Call == nCalls < MaxCallsEach /\ UserCall

\* the user's first call() on the second instance
Shell2Call ==
    /\ shell2.nCalls = 0
    /\ \E re \in BOOLEAN : Shell2Becomes(Call(shell2, re))

\* a queueMicrotask callback of the second instance runs
Shell2Microtask ==
    /\ shell2.microtasks > 0
    /\ Shell2Becomes(Tick([shell2 EXCEPT !.microtasks = @ - 1]))

\* a variant of Shell2ChildReply in which the second instance listens to the
\* stdout of the first instance's child
Shell2ChildReplyFromSharedPipe(p) ==
    /\ NoMicrotask
    /\ childState[p] = "running"
    /\ stdinBuf[p] # <<>>
    /\ shell2.subscribed /\ shell2.active # 0
    /\ LET e  == Head(stdinBuf[p])
           s1 == [shell2 EXCEPT !.decoded = Append(@, [env |-> e, to |-> shell2.active, shape |-> {}])]
       IN Shell2Becomes(OnEnvelope(s1, e, {}))

\* child p of the second instance answers the oldest command on its stdin
Shell2ChildReply(p) ==
    /\ NoMicrotask
    /\ shell2.childState[p] = "running"
    /\ shell2.stdinBuf[p] # <<>>
    /\ LET e  == Head(shell2.stdinBuf[p])
           s0 == [shell2 EXCEPT !.stdinBuf[p] = Tail(@)]
           s1 == [s0 EXCEPT !.decoded = Append(@, [env |-> e, to |-> shell2.active, shape |-> {}])]
       IN IF p = shell2.pid /\ shell2.subscribed /\ shell2.active # 0
          THEN Shell2Becomes(OnEnvelope(s1, e, {}))
          ELSE Shell2Becomes(s0)

\* the timeout timer of the second instance fires for its invoked command
Shell2Timeout ==
    /\ NoMicrotask
    /\ shell2.subscribed
    /\ shell2.active # 0
    /\ Shell2Becomes(OnTimeout([shell2 EXCEPT !.timedOut = @ \cup {shell2.active}]))

\* child p of the second instance closes
Shell2ChildClose(p) ==
    /\ NoMicrotask
    /\ shell2.childState[p] = "running"
    /\ Shell2Becomes(OnClose(shell2, p))

\* a delay(3000) timer of a destroy() pipeline of the second instance fires
Shell2SignalTimer(i) ==
    /\ NoMicrotask
    /\ i \in 1..Len(shell2.pipelines)
    /\ Shell2Becomes(OnSignalTimer(shell2, i))

\* two instances: the user of the first submits up to MaxCallsEach commands,
\* the user of the second one command, and their subscribers may submit more
NextTwoShells ==
    \/ Shell1Call
    \/ Microtask
    \/ \E p \in Pids : NoMicrotask /\ ChildReply(p)
    \/ NoMicrotask /\ Timeout
    \/ \E p \in Pids : NoMicrotask /\ ChildClose(p)
    \/ \E i \in 1..MaxCalls : NoMicrotask /\ SignalTimer(i)
    \/ Shell2Call
    \/ Shell2Microtask
    \/ \E p \in Pids : Shell2ChildReply(p)
    \/ Shell2Timeout
    \/ \E p \in Pids : Shell2ChildClose(p)
    \/ \E i \in 1..MaxCalls : Shell2SignalTimer(i)

SpecTwoShells == InitDefault /\ [][NextTwoShells]_vars

\* the closed$ class with destroy() called repeatedly, on a shell whose user
\* submits one command
NextRepeatedDestroy ==
    \/ UserCallFirst
    \/ Microtask
    \/ \E p \in Pids : ChildReply(p)
    \/ Timeout
    \/ \E p \in Pids : ChildClose(p)
    \/ \E i \in 1..MaxCalls + MaxDestroy + 1 : SignalTimer(i)
    \/ UserDestroyAgain

SpecRepeatedDestroy == Init /\ [][NextRepeatedDestroy]_vars

\* the pid class (index.ts 363-659)
SpecPid == InitPid /\ [][NextPid]_vars

\* ------------------------------------------------------------ BufferReader
\* The reader of one pipe, on its own: chunks of bytes are written to it, and
\* it emits the payloads it extracts. The delimiters of the source are two
\* strings of 10 bytes with no byte of one at the same place in the other;
\* here they are two strings of 2 bytes, and a byte is a number of 0..4.
Bytes == 0..4
\* this.head = Buffer.from(delimit_head), this.tail = Buffer.from(delimit_tail)
delimit_head == <<1, 2>>
delimit_tail == <<3, 4>>

\* Buffer.indexOf(value): the offset (from 0) of the first occurrence, or -1
IndexOf(b, pat) ==
    LET at == { i \in 0..(Len(b) - Len(pat)) : SubSeq(b, i + 1, i + Len(pat)) = pat }
    IN IF at = {} THEN -1 ELSE CHOOSE i \in at : \A j \in at : i <= j

\* Buffer.includes(value)
Includes(b, pat) == IndexOf(b, pat) # -1

\* the offset handling of Buffer.slice / Buffer.subarray: a negative offset
\* counts from the end, and every offset is clamped to 0..length
AdjustOffset(o, n) ==
    IF o < 0 THEN (IF o + n > 0 THEN o + n ELSE 0)
    ELSE IF o < n THEN o ELSE n

\* Buffer.slice(start, end) / Buffer.subarray(start, end): empty when end <= start
Slice(b, start, end) ==
    LET from == AdjustOffset(start, Len(b))
        to   == AdjustOffset(end, Len(b))
    IN IF to > from THEN SubSeq(b, from + 1, to) ELSE <<>>

\* extract(): data is what it returns, rest the buffer it leaves
Extract(b) ==
    LET head_idx == IndexOf(b, delimit_head)
        tail_idx == IndexOf(b, delimit_tail)
    IN [buf  |-> b,
        data |-> Slice(b, head_idx + Len(delimit_head), tail_idx),
        rest |-> Slice(b, tail_idx + Len(delimit_tail), Len(b))]

\* a variant of the loop of _write that extracts once per chunk (if, not while)
WriteOnce(b, out) ==
    IF ~Includes(b, delimit_tail) THEN [buffer |-> b, emitted |-> out]
    ELSE LET x == Extract(b) IN [buffer |-> x.rest, emitted |-> Append(out, x)]

\* the loop of _write: while (this.buffer.includes(this.tail)) subject.next(extract())
RECURSIVE WriteLoop(_, _)
WriteLoop(b, out) ==
    IF ~Includes(b, delimit_tail) THEN [buffer |-> b, emitted |-> out]
    ELSE LET x == Extract(b) IN WriteLoop(x.rest, Append(out, x))

\* the chunks a write may carry
Chunks == UNION { [1..n -> Bytes] : n \in 1..MaxChunk }

\* _write(chunk): Buffer.concat([this.buffer, chunk]), then the loop
Write(chunk) ==
    /\ Len(fed) + Len(chunk) <= MaxInput
    /\ LET r == WriteLoop(buffer \o chunk, emitted)
       IN buffer' = r.buffer /\ emitted' = r.emitted
    /\ fed' = fed \o chunk
    /\ UNCHANGED <<shellVars, shell2, pending, unitVars, wrapVars>>

NextReader == \E chunk \in Chunks : Write(chunk)

\* new BufferReader(head, tail), written to in chunks of any content
SpecReader == InitDefault /\ [][NextReader]_vars

\* The reader fed with what a child writes: a stream of complete frames,
\* delimit_head, payload, delimit_tail, cut into chunks at any place.
\* payloads of up to MaxPayload bytes that contain neither delimiter
Payloads ==
    { q \in UNION { [1..n -> Bytes] : n \in 0..MaxPayload } :
        ~Includes(q, delimit_head) /\ ~Includes(q, delimit_tail) }

\* "$delimit_head_A$delimit_head_B" + $rxjs_pwsh_json + "$delimit_tail_A$delimit_tail_B"
Frame(q) == delimit_head \o q \o delimit_tail

\* the bytes of the frames of the payloads ps, in order
RECURSIVE Stream(_)
Stream(ps) == IF ps = <<>> THEN <<>> ELSE Frame(ps[1]) \o Stream(SubSeq(ps, 2, Len(ps)))

\* the payloads of the child's envelopes, in the order it wrote them
PayloadSeqs == UNION { [1..n -> Payloads] : n \in 1..MaxFrames }

\* the pipe hands the reader the next n bytes as one chunk
WriteNext(n) ==
    /\ n \in 1..Len(pending)
    /\ LET chunk == SubSeq(pending, 1, n)
           r     == WriteLoop(buffer \o chunk, emitted)
       IN /\ buffer' = r.buffer /\ emitted' = r.emitted
          /\ fed' = fed \o chunk
    /\ pending' = SubSeq(pending, n + 1, Len(pending))
    /\ UNCHANGED <<shellVars, shell2, unitVars, wrapVars>>

InitFrames ==
    /\ impl = "closed" /\ InitCommon /\ timeout = DefaultTimeout
    /\ \E ps \in PayloadSeqs : pending = Stream(ps)
    /\ payload = NoPayload
    /\ params = NoParams

NextFrames == \E n \in 1..(MaxFrames * (MaxPayload + 4)) : WriteNext(n)

\* new BufferReader(head, tail), fed a stream of complete frames chunk by chunk
SpecFrames == InitFrames /\ [][NextFrames]_vars

\* ------------------------------------------- the map of listen, on its own
\* read_out.subject emits the payload; the map runs
Listen ==
    /\ streams.status = "none"
    /\ streams' = Decode(payload)
    /\ UNCHANGED <<shellVars, shell2, readerVars, proc, payload, wrapVars>>

InitListen ==
    /\ impl = "closed" /\ InitCommon /\ timeout = DefaultTimeout /\ pending = <<>>
    /\ payload \in Payload0
    /\ params = NoParams

NextListen == Listen

\* the map of listen applied to a payload
SpecListen == InitListen /\ [][NextListen]_vars

\* -------------------------------------------------------- PowerShellProcess
\* The process wrapper of process.ts on its own: commands are written to it
\* with verbose and debug collection on or off, the child runs them, exits at
\* any time, and the 'close' listener of the constructor runs.

\* the temp file a stream is redirected to
TempFile == [verbose |-> "out_verbose", debug |-> "out_debug"]

\* a variant of removeTempFile that does not test existsSync: unlinkSync
\* throws on a file that does not exist
RemoveTempFileUnchecked(pr, file) ==
    IF pr.threw THEN pr
    ELSE IF file \in pr.files
         THEN [pr EXCEPT !.files = @ \ {file}, !.unlinked = @ \cup {file}]
    ELSE [pr EXCEPT !.threw = TRUE]

\* removeTempFile(file): if (existsSync(file)) unlinkSync(file); a statement
\* after a throw does not run
RemoveTempFile(pr, file) ==
    IF pr.threw THEN pr
    ELSE IF file \in pr.files
         THEN [pr EXCEPT !.files = @ \ {file}, !.unlinked = @ \cup {file}]
    ELSE pr

\* Subject.next / Subject.complete on closed$: ignored once it has completed
ClosedNotify(pr, what) ==
    IF pr.threw \/ (pr.closed # <<>> /\ pr.closed[Len(pr.closed)] = "complete") THEN pr
    ELSE [pr EXCEPT !.closed = Append(@, what)]

\* this.child.once('close', ..): both temp files are removed, closed$ emits
\* and completes
ProcOnClose(pr) ==
    LET p1 == RemoveTempFile(pr, TempFile.verbose)
        p2 == RemoveTempFile(p1, TempFile.debug)
        p3 == ClosedNotify(p2, "next")
    IN ClosedNotify(p3, "complete")

\* write(command, format, verbose, debug): stdin.write of the wrapped script
\* (a child that has exited reads nothing)
ProcWrite(verbose, debug) ==
    /\ proc.nWrites < MaxWrites
    /\ proc' = [proc EXCEPT
                   !.nWrites = @ + 1,
                   !.stdin = IF proc.state = "running"
                             THEN Append(@, [verbose |-> verbose, debug |-> debug])
                             ELSE @]
    /\ UNCHANGED <<shellVars, shell2, readerVars, payload, streams, wrapVars>>

\* the child starts the script at the head of its stdin: the redirections
\* 4>$vv 5>$dv create the temp file of each stream that is collected
ProcRunScript ==
    /\ proc.state = "running" /\ proc.script = <<>> /\ proc.stdin # <<>>
    /\ LET c == Head(proc.stdin)
       IN proc' = [proc EXCEPT
                      !.stdin = Tail(@), !.script = <<c>>,
                      !.files = @ \cup (IF c.verbose THEN {TempFile.verbose} ELSE {})
                                  \cup (IF c.debug THEN {TempFile.debug} ELSE {})]
    /\ UNCHANGED <<shellVars, shell2, readerVars, payload, streams, wrapVars>>

\* the finally block of the script: Get-Content, then Remove-Item of each
\* temp file that is collected, then the frame is written
ProcFinishScript ==
    /\ proc.state = "running" /\ proc.script # <<>>
    /\ LET c == proc.script[1]
       IN proc' = [proc EXCEPT
                      !.script = <<>>,
                      !.files = (@ \ (IF c.verbose THEN {TempFile.verbose} ELSE {}))
                                  \ (IF c.debug THEN {TempFile.debug} ELSE {})]
    /\ UNCHANGED <<shellVars, shell2, readerVars, payload, streams, wrapVars>>

\* the child exits, between or in the middle of scripts
ProcExit ==
    /\ proc.state = "running"
    /\ proc' = [proc EXCEPT !.state = "exited", !.stdin = <<>>, !.script = <<>>]
    /\ UNCHANGED <<shellVars, shell2, readerVars, payload, streams, wrapVars>>

\* Node emits 'close' for the child that has exited; the listener runs
ProcClose ==
    /\ proc.state = "exited"
    /\ proc' = [ProcOnClose(proc) EXCEPT !.state = "closed"]
    /\ UNCHANGED <<shellVars, shell2, readerVars, payload, streams, wrapVars>>

NextProcess ==
    \/ \E verbose, debug \in BOOLEAN : ProcWrite(verbose, debug)
    \/ ProcRunScript
    \/ ProcFinishScript
    \/ ProcExit
    \/ ProcClose

\* new PowerShellProcess(), written to, until its child has closed
SpecProcess == InitDefault /\ [][NextProcess]_vars

\* ------------------------------------------------- the wrapper, on its own
\* write() wraps the command
Wrap ==
    /\ script.by = "none"
    /\ script' = [by |-> "wrap", EOI |-> "", text |-> wrap(params)]
    /\ UNCHANGED <<shellVars, shell2, readerVars, unitVars, params>>

\* the first wrapper wraps the command
WrapEOI(EOI, format) ==
    /\ script.by = "none"
    /\ script' = [by |-> "wrapEOI", EOI |-> EOI,
                  text |-> wrapEOI([command |-> params.command, EOI |-> EOI,
                                    format |-> format, EOL |-> params.EOL])]
    /\ UNCHANGED <<shellVars, shell2, readerVars, unitVars, params>>

InitWrap ==
    /\ impl = "closed" /\ InitCommon /\ timeout = DefaultTimeout /\ pending = <<>>
    /\ payload = NoPayload
    /\ params \in Params0

NextWrap ==
    \/ Wrap
    \/ \E EOI \in {delimit_head_text, delimit_tail_text}, format \in FormatsEOI :
            WrapEOI(EOI, format)

\* wrap() of each wrapper, applied to one command
SpecWrap == InitWrap /\ [][NextWrap]_vars

\* ------------------------------------------------------------------ claims
Resolutions(l, c) == Events(l, "next", c) \cup Events(l, "error", c)
Resolved(l, c) == Resolutions(l, c) # {}
\* the position in the history of the first resolution of c's subject
FirstResolution(l, c) == CHOOSE i \in Resolutions(l, c) : \A j \in Resolutions(l, c) : i <= j

\* C1: with no destroy() call, subjects are resolved (result or error) in the
\* order the commands were submitted: a later command's subject is never
\* resolved before an earlier command's.
C1_ResolvedInSubmissionOrder ==
    nDestroy = 0 =>
        \A a, b \in 1..nCalls :
            (a < b /\ Resolved(log, b)) =>
                /\ Resolved(log, a)
                /\ FirstResolution(log, a) < FirstResolution(log, b)

\* the child a command was written to (0: not written)
WrittenTo(l, c) ==
    IF Events(l, "write", c) = {} THEN 0
    ELSE l[CHOOSE i \in Events(l, "write", c) : TRUE].pid

\* C2: at most one command is in flight: between two writes to stdin, the
\* subject of the command written first has received its result or its error.
C2_OneCommandInFlight ==
    \A i, j \in 1..Len(log) :
        (i < j /\ log[i].ev = "write" /\ log[j].ev = "write") =>
            \E k \in (i + 1)..(j - 1) :
                log[k].cmd = log[i].cmd /\ log[k].ev \in {"next", "error"}

\* C3: the subject of a command is resolved at most once: one result followed
\* by complete, or one error and no result.
C3_ResolvedAtMostOnce ==
    \A c \in Cmds :
        /\ Count(log, "next", c) + Count(log, "error", c) <= 1
        /\ Count(log, "complete", c) = Count(log, "next", c)
        /\ \A i \in Events(log, "next", c) : log[i + 1] = Ev("complete", c, log[i].pid, "", 0)

\* C3 witness: one command has received its result and completed, another its error
C3_Witness ==
    \E a, b \in Cmds :
        /\ Count(log, "next", a) = 1 /\ Count(log, "complete", a) = 1
        /\ Count(log, "error", b) = 1

\* nothing is pending: no microtask, no timer, no child that was signalled and
\* has yet to close
Settled ==
    /\ microtasks = 0
    /\ pipelines = <<>>
    /\ ~(subscribed /\ active # 0)
    /\ \A p \in Pids : childState[p] = "running" => signals[p] = <<>>

\* C4: every submitted command has its subject resolved in the end: once
\* nothing is pending any more, no submitted command is left unresolved.
C4_EveryCommandResolved ==
    Settled => \A c \in 1..nCalls : Resolved(log, c)

C6_RestartsAfterTimeout ==
    (nDestroy = 0 /\ Settled) =>
        \A c \in timedOut : pid > WrittenTo(log, c) /\ subscribed

C9_WrittenOnce ==
    \A c \in Cmds :
        /\ Count(log, "write", c) <= 1
        /\ Count(log, "shift", c) = Count(log, "write", c)

\* C9 witness: after a timeout the new child was written to
C9_Witness ==
    \E c \in timedOut, d \in Cmds :
        /\ WrittenTo(log, c) < pid
        /\ WrittenTo(log, d) = pid

C11_BroadcastersEmitNonEmptyArraysOnly ==
    /\ \A k \in 1..Len(decoded) :
           LET e == decoded[k].env
           IN /\ { log[i].arg : i \in Events(log, "emit", e) } = decoded[k].shape
              /\ Count(log, "emit", e) = Cardinality(decoded[k].shape)
              /\ \E i \in Events(log, "next", decoded[k].to) : log[i].val = e
    /\ \A i \in 1..Len(log) :
           log[i].ev = "emit" => \E k \in 1..Len(decoded) : decoded[k].env = log[i].cmd

\* C11 witness: an envelope with six empty arrays and one with non-empty arrays
\* were decoded, and the command of the empty one has its result
C11_Witness ==
    \E k, m \in 1..Len(decoded) :
        /\ decoded[k].shape = {}
        /\ Count(log, "emit", decoded[k].env) = 0
        /\ Count(log, "next", decoded[k].to) = 1
        /\ decoded[m].shape # {}
        /\ Count(log, "emit", decoded[m].env) > 0

\* C12: on each stream the broadcaster emits in submission order: of two
\* emissions on one stream, the earlier one is for the command submitted
\* earlier.
C12_StreamEmitsInSubmissionOrder ==
    \A i, j \in 1..Len(log) :
        (i < j /\ log[i].ev = "emit" /\ log[j].ev = "emit" /\ log[i].arg = log[j].arg) =>
            log[i].cmd < log[j].cmd

\* C12 witness: one stream has emitted for two commands that were queued
\* under the same child
C12_Witness ==
    \E i, j \in 1..Len(log) :
        /\ i < j /\ log[i].ev = "emit" /\ log[j].ev = "emit"
        /\ log[i].arg = log[j].arg /\ log[i].cmd # log[j].cmd
        /\ \E k \in 1..(i - 1) : log[k].ev = "write" /\ log[k].cmd = log[i].cmd
        /\ cmdPid[log[j].cmd] = cmdPid[log[i].cmd]

\* C13: the result a command's subject receives is the envelope the child
\* produced for that command: every decoded envelope goes to the command it
\* was produced for, no envelope goes to two commands, no command takes two
\* envelopes, and every result received is such an envelope.
C13_ResultIsOwnEnvelope ==
    /\ \A k \in 1..Len(decoded) : decoded[k].to = decoded[k].env
    /\ \A k, m \in 1..Len(decoded) :
           k # m => decoded[k].env # decoded[m].env /\ decoded[k].to # decoded[m].to
    /\ \A i \in 1..Len(log) :
           log[i].ev = "next" =>
               \E k \in 1..Len(decoded) :
                   decoded[k].to = log[i].cmd /\ decoded[k].env = log[i].val

\* C13 witness: a command received its envelope, a later one timed out, and a
\* still later one received its envelope
C13_Witness ==
    \E k, m \in 1..Len(decoded), c \in timedOut :
        /\ decoded[k].env < c /\ c < decoded[m].env
        /\ Count(log, "next", decoded[k].to) = 1
        /\ Count(log, "next", decoded[m].to) = 1

\* C14: an envelope whose error array is non-empty is a normal completion: in
\* the step that decodes it the subject of the invoked command receives the
\* result and completes without an error, error$ emits, no child is signalled,
\* closed or spawned, the dispatcher stays subscribed with no restart
\* pending, and the command at the head of the queue is invoked on the same
\* child.
C14_ErrorArrayIsNormalCompletion ==
    [][(Len(decoded') > Len(decoded) /\ "error" \in decoded'[Len(decoded')].shape) =>
           LET c == active
           IN /\ decoded'[Len(decoded')].to = c
              /\ Count(log', "next", c) = 1
              /\ Count(log', "complete", c) = 1
              /\ Count(log', "error", c) = 0
              /\ \E i \in Events(log', "emit", decoded'[Len(decoded')].env) : log'[i].arg = "error"
              /\ pid' = pid /\ childState' = childState /\ signals' = signals
              /\ subscribed' = subscribed /\ pipelines' = pipelines
              /\ initOnClose' = initOnClose
              /\ queue # <<>> =>
                     active' = Head(queue) /\ WrittenTo(log', Head(queue)) = pid
      ]_vars

\* C14 witness: a command whose envelope held errors has completed, and the
\* command queued behind it has received its result from the same child
C14_Witness ==
    \E k \in 1..Len(decoded), d \in Cmds :
        /\ "error" \in decoded[k].shape
        /\ Count(log, "complete", decoded[k].to) = 1
        /\ d = decoded[k].to + 1
        /\ cmdPid[d] = cmdPid[decoded[k].to]
        /\ WrittenTo(log, d) = WrittenTo(log, decoded[k].to)
        /\ Count(log, "next", d) = 1

\* C15: a failure of a command (timeout, payload that is not JSON) is
\* delivered to the subject of that command only: the step that errors a
\* subject adds nothing else to the history, no broadcaster ever emits for a
\* command that failed, and the broadcasters go on emitting the non-empty
\* arrays of the envelopes decoded after a failure.
C15_FailureReachesOnlyItsSubject ==
    /\ [](\A c \in Cmds : Count(log, "error", c) > 0 => Count(log, "emit", c) = 0)
    /\ [](\A k \in 1..Len(decoded) :
             Count(log, "emit", decoded[k].env) = Cardinality(decoded[k].shape))
    /\ [][\A c \in Cmds :
             Count(log', "error", c) > Count(log, "error", c) =>
                 /\ Len(log') = Len(log) + 1
                 /\ SubSeq(log', 1, Len(log)) = log
                 /\ log'[Len(log')].ev = "error" /\ log'[Len(log')].cmd = c
        ]_vars

\* C15 witness: one command timed out, one was answered with a payload that
\* is not JSON, and a broadcaster has emitted for a command submitted later
C15_Witness ==
    \E c \in timedOut, d \in undecodable, e \in Cmds :
        /\ c < e /\ d < e
        /\ Count(log, "error", c) = 1 /\ Count(log, "error", d) = 1
        /\ Count(log, "emit", e) > 0

\* C16: when destroy() is called with a command invoked and commands queued,
\* then in the step in which closed$ fires and the handle of destroy()
\* resolves, the invoked command and every queued command have been failed:
\* no submitted command is left unresolved, and none is left in the queue.
C16_CloseFailsInvokedAndQueued ==
    [][\A i \in 1..Len(handles) :
           (~handles[i].resolved /\ handles'[i].resolved) =>
               /\ \A c \in 1..nCalls : Resolved(log', c)
               /\ queue' = <<>>
      ]_vars

\* C17: destroy() is idempotent: a later call returns a handle that is
\* resolved whenever the handle of the first call is, and sets up no signals
\* beyond those of the first call: with no timeout and no decoding failure
\* (which call destroy() themselves) there is one signal schedule, and no
\* child is sent more than its SIGTERM and SIGINT.
C17_DestroyIsIdempotent ==
    /\ \A i \in 2..Len(handles) : handles[1].resolved => handles[i].resolved
    /\ (timedOut = {} /\ undecodable = {}) =>
           /\ Len(pipelines) <= 1
           /\ \A p \in Pids : Len(signals[p]) <= 2

\* C18: after destroy() has completed (a handle it returned has resolved), no
\* command reaches the stdin of a child and no broadcaster emits, whatever is
\* called afterwards.
C18_NothingAfterDestroyCompleted ==
    [][(\E i \in 1..Len(handles) : handles[i].resolved) =>
           /\ \A p \in Pids : Len(stdinBuf'[p]) <= Len(stdinBuf[p])
           /\ \A k \in (Len(log) + 1)..Len(log') : log'[k].ev # "emit"
      ]_vars

\* C19: when the handle of destroy() resolves, the child it was called for is
\* no longer running and the temp files of that child do not exist.
C19_ResolvedMeansClosedAndCleaned ==
    \A i \in 1..Len(handles) :
        handles[i].resolved =>
            /\ childState[handles[i].gen] = "closed"
            /\ ~tmpFiles[handles[i].gen]

\* C19 witness: the handle has resolved for a child that had been given a
\* command to run, and so had created its temp files
C19_Witness ==
    \E i \in 1..Len(handles), c \in Cmds :
        /\ handles[i].resolved
        /\ WrittenTo(log, c) = handles[i].gen

\* C20: when destroy() is called while a restart is in progress, its handle
\* resolves only after the newly spawned child has closed too: once it has
\* resolved, no child is running.
C20_DestroyDuringRestartShutsNewChildDown ==
    \A i \in 1..Len(handles) :
        (handles[i].restarting /\ handles[i].resolved) =>
            \A p \in Pids : childState[p] # "running"

\* C21: when the child exits on its own (no signal was sent to it and no
\* destroy() is under way) while a command is invoked, then in the step in
\* which the child's close is handled the invoked command's subject is failed,
\* and the commands still queued are not left behind: the queue is empty or a
\* restart has been arranged for them.
C21_SelfExitFailsInvoked ==
    [][\A p \in Pids :
           (/\ childState[p] = "running" /\ childState'[p] = "closed"
            /\ p = pid /\ subscribed /\ active # 0
            /\ signals[p] = <<>> /\ pipelines = <<>>) =>
               /\ Count(log', "error", active) > 0
               /\ queue' = <<>> \/ pid' # pid \/ initOnClose'
      ]_vars

\* C22: when the child's payload cannot be decoded as JSON of the expected
\* shape, then in that step the invoked command's subject gets the decoding
\* error and nothing else, and a restart is triggered: the dispatcher stops,
\* destroy() is started and init is subscribed to the close of the child.
C22_DecodeFailureFailsAndRestarts ==
    [][\A c \in Cmds :
           (c \in undecodable' /\ c \notin undecodable) =>
               /\ c = active
               /\ log' = Append(log, Ev("error", c, pid, "SyntaxError", 0))
               /\ ~subscribed' /\ active' = 0
               /\ Len(pipelines') = Len(pipelines) + 1
               /\ initOnClose'
      ]_vars

\* C22 witness: a command was answered with a payload that is not JSON and got
\* the decoding error, and the restart has happened: a later child is current
C22_Witness ==
    \E c \in undecodable :
        /\ \E i \in Events(log, "error", c) : log[i].arg = "SyntaxError"
        /\ pid > WrittenTo(log, c)
        /\ childState[pid] = "running"

\* C23: a command whose write to the child's stdin reported an error is failed
\* then, as if the child had closed, and is not left waiting for an envelope:
\* it is never the command that the timeout fires for.
C23_WriteErrorFailsCommand ==
    \A i \in 1..Len(log) :
        (log[i].ev = "write" /\ log[i].arg = "write error") =>
            log[i].cmd \notin timedOut

\* C24: call() returns its handle before any effect of the call: in a step
\* that is a call() of the user (a step that submits a command and in which no
\* payload is delivered and no timeout fires), the submitted command is not
\* written to the child and its subject gets no result, completion or error.
C24_CallReturnsBeforeEffects ==
    [][(/\ nCalls' > nCalls
        /\ timedOut' = timedOut /\ undecodable' = undecodable /\ decoded' = decoded) =>
           \A k \in 1..Len(log') :
               log'[k].cmd = nCalls + 1 =>
                   log'[k].ev \notin {"write", "next", "complete", "error"}
      ]_vars

\* C25: promise() yields the command's outcome at whatever point it is called:
\* once the subject is resolved, a promise that was requested for it is
\* resolved with the result the subscribers received, or rejected with the
\* error they received.
C25_PromiseYieldsOutcome ==
    \A c \in 1..nCalls :
        (promises[c].st # "none" /\ Resolved(log, c)) =>
            LET r == log[FirstResolution(log, c)]
            IN promises[c] = IF r.ev = "next"
                             THEN [st |-> "resolved", arg |-> "", val |-> r.val]
                             ELSE [st |-> "rejected", arg |-> r.arg, val |-> r.val]

\* C26: absent a restart, commands run against one persistent child in
\* submission order: when the k-th submitted command is written to the first
\* child, each of the first k-1 submitted commands has been written to that
\* child before it and has been answered by it with its own envelope; and on
\* any child, commands are written in submission order, each after the answer
\* to the one before.
C26_PersistentChildInSubmissionOrder ==
    \A i \in 1..Len(log) :
        log[i].ev = "write" =>
            /\ log[i].pid = 1 =>
                   \A c \in 1..(log[i].cmd - 1) :
                       \E j, k \in 1..(i - 1) :
                           /\ j < k
                           /\ log[j] = Ev("write", c, 1, "", 0)
                           /\ log[k] = Ev("next", c, 1, "", c)
            /\ \A j \in 1..(i - 1) :
                   (log[j].ev = "write" /\ log[j].pid = log[i].pid) =>
                       /\ log[j].cmd < log[i].cmd
                       /\ \E k \in (j + 1)..(i - 1) :
                              log[k].ev = "next" /\ log[k].cmd = log[j].cmd

\* C26 witness: three commands were written to the first child, which never
\* was replaced
C26_Witness ==
    /\ pid = 1
    /\ \A c \in 1..3 : WrittenTo(log, c) = 1

\* every envelope decoded went to the command it answers, and every result a
\* subject received is the envelope of its own command, produced by the child
\* the command was written to
OwnResults(l, d) ==
    /\ \A k \in 1..Len(d) : d[k].to = d[k].env
    /\ \A i \in 1..Len(l) :
           l[i].ev = "next" =>
               /\ l[i].val = l[i].cmd
               /\ \E j \in 1..(i - 1) : l[j] = Ev("write", l[i].cmd, l[i].pid, "", 0)

HeadsBefore(b, t) ==
    { i \in 0..(t - Len(delimit_head)) : SubSeq(b, i + 1, i + Len(delimit_head)) = delimit_head }

\* C28: when the buffer contains a tail delimiter with a head delimiter
\* before it, the reader emits exactly the bytes between the head occurrence
\* closest before that tail and the tail, and leaves in the buffer exactly
\* the bytes that followed the tail.
C28_TakesClosestHeadBeforeTail ==
    \A k \in 1..Len(emitted) :
        LET b == emitted[k].buf
            t == IndexOf(b, delimit_tail)
            H == HeadsBefore(b, t)
        IN H # {} =>
               LET h == CHOOSE i \in H : \A j \in H : j <= i
               IN /\ emitted[k].data = SubSeq(b, h + Len(delimit_head) + 1, t)
                  /\ emitted[k].rest = SubSeq(b, t + Len(delimit_tail) + 1, Len(b))

\* C29: when the buffer contains a tail delimiter and no head delimiter
\* before it, the reader emits everything from the start of the buffer up to
\* the tail, and leaves in the buffer exactly the bytes that followed the tail.
C29_NoHeadTakesFromStart ==
    \A k \in 1..Len(emitted) :
        LET b == emitted[k].buf
            t == IndexOf(b, delimit_tail)
        IN HeadsBefore(b, t) = {} =>
               /\ emitted[k].data = SubSeq(b, 1, t)
               /\ emitted[k].rest = SubSeq(b, t + Len(delimit_tail) + 1, Len(b))

\* C30: no emitted payload contains bytes of two envelopes: no payload
\* contains a head delimiter, the start of another envelope.
C30_PayloadWithinOneFrame ==
    \A k \in 1..Len(emitted) : ~Includes(emitted[k].data, delimit_head)

\* the payloads of the complete frames at the start of b, in order (b is a
\* stream of frames whose payloads contain no delimiter, or a prefix of one)
RECURSIVE FramedPayloads(_)
FramedPayloads(b) ==
    IF ~Includes(b, delimit_tail) THEN <<>>
    ELSE LET t == IndexOf(b, delimit_tail)
         IN <<SubSeq(b, Len(delimit_head) + 1, t)>>
                \o FramedPayloads(SubSeq(b, t + Len(delimit_tail) + 1, Len(b)))

\* C31: for a stream of complete frames, however it is cut into chunks, the
\* reader has emitted exactly the payloads of the frames it has been given in
\* full, one per frame and in order, and holds the bytes of the frame that is
\* still incomplete; when the whole stream has been written the buffer is
\* empty.
C31_FramesEmittedForEveryChunking ==
    /\ [k \in 1..Len(emitted) |-> emitted[k].data] = FramedPayloads(fed)
    /\ \E ps \in PayloadSeqs :
           /\ fed \o pending = Stream(ps)
           /\ pending = <<>> => /\ buffer = <<>>
                                /\ [k \in 1..Len(emitted) |-> emitted[k].data] = ps

\* C31 witness: a stream of two frames with payloads was written, and the
\* chunk that completed the first frame held all of the second: the reader
\* found both frames in its buffer and emitted both payloads
C31_Witness ==
    /\ pending = <<>>
    /\ Len(emitted) = 2
    /\ emitted[1].data # <<>> /\ emitted[2].data # <<>>
    /\ emitted[1].buf = Frame(emitted[1].data) \o Frame(emitted[2].data)
    /\ emitted[2].buf = Frame(emitted[2].data)

\* C32: kill escalation: in the step in which destroy() is called on a running
\* child, SIGTERM is sent to it; the signals a child receives are SIGTERM,
\* then SIGINT, then SIGKILL; and a child that has been sent SIGTERM and
\* SIGINT and still runs either has been sent SIGKILL or has a signal timer
\* pending that will send it.
C32_KillEscalation ==
    /\ [][(nDestroy' = nDestroy + 1 /\ childState[pid] = "running") =>
              signals'[pid] = Append(signals[pid], "SIGTERM")]_vars
    /\ [](\A p \in Pids :
              (/\ childState[p] = "running"
               /\ \E i, j \in 1..Len(signals[p]) :
                      i < j /\ signals[p][i] = "SIGTERM" /\ signals[p][j] = "SIGINT") =>
                  \/ \E k \in 1..Len(signals[p]) : signals[p][k] = "SIGKILL"
                  \/ pipelines # <<>>)

\* C33: the queue is not consumed while a restart or a shutdown is in
\* progress: a step that starts and ends with init waiting for the close of a
\* timed-out child, or with a handle of destroy() not yet resolved, dequeues no
\* command and writes none.
C33_QueueHeldDuringRestartAndShutdown ==
    [][(\/ initOnClose /\ initOnClose'
        \/ \E i \in 1..Len(handles) : ~handles[i].resolved /\ ~handles'[i].resolved) =>
           \A k \in (Len(log) + 1)..Len(log') : log'[k].ev \notin {"shift", "write"}
      ]_vars

\* C34: only the command in flight can fail with the timeout: in the step in
\* which a command times out, that command is the one invoked, it has been
\* written to the child, and the timeout message is the only error the step
\* hands out; a command that is still in the queue has no timeout error.
C34_OnlyInvokedCommandTimesOut ==
    /\ [][\A c \in Cmds :
              (c \in timedOut' /\ c \notin timedOut) =>
                  /\ c = active
                  /\ Count(log, "write", c) = 1
                  /\ \A k \in (Len(log) + 1)..Len(log') :
                         log'[k].ev = "error" =>
                             log'[k] = Ev("error", c, pid, "Command timed out", timeout)
          ]_vars
    /\ [](\A i \in 1..Len(log) :
              (log[i].ev = "error" /\ log[i].arg = "Command timed out") =>
                  /\ log[i].cmd \in timedOut
                  /\ \E k \in 1..(i - 1) : log[k].ev = "write" /\ log[k].cmd = log[i].cmd
                  /\ \A q \in 1..Len(queue) : queue[q] # log[i].cmd)

\* C34 witness: a command timed out while another waited in the queue, and
\* the one that waited has no error
C34_Witness ==
    \E c \in timedOut, d \in Cmds :
        /\ c < d
        /\ \E q \in 1..Len(queue) : queue[q] = d
        /\ Count(log, "error", c) = 1
        /\ Count(log, "error", d) = 0

\* C35: a replacement child is spawned only after the previous child has
\* closed: at most one child is running at any time.
C35_AtMostOneChildAlive ==
    Cardinality({ p \in Pids : childState[p] = "running" }) <= 1

\* C36: for the child of a PowerShellProcess, closed fires exactly once and
\* then completes, in the step that handles the child's close, whether or not
\* the temp files exist at that time; and once it has fired neither temp file
\* exists.
C36_ClosedOnceAfterCleanup ==
    /\ [](/\ proc.closed \in {<<>>, <<"next", "complete">>}
          /\ proc.closed # <<>> => proc.files = {}
          /\ proc.state = "closed" => proc.closed # <<>>)
    /\ [][proc.closed # <<>> => proc'.closed = proc.closed]_vars

\* C36 witness: the child has exited in the middle of a script that collected
\* one of the two streams, so that one temp file existed and the other did
\* not, and closed has fired
C36_Witness ==
    /\ proc.state = "closed"
    /\ proc.closed = <<"next", "complete">>
    /\ proc.unlinked = {TempFile.debug}
    /\ proc.files = {}

\* C37: decoding an envelope parses error, warning, verbose, debug and info
\* as JSON whatever the format, and success as JSON exactly when the format
\* field is not null, returning it unchanged when format is null: the result
\* exists exactly when the payload and every text that is parsed are JSON, and
\* then it has the six fields, each the parsed value, or for success with a
\* null format the text as it was.
C37_DecodeParsesPerFormat ==
    streams.status # "none" =>
        LET parsedFields == {"error", "warning", "verbose", "debug", "info"}
                                \cup (IF payload.format # "null" THEN {"success"} ELSE {})
            valid == payload.json /\ \A f \in parsedFields : payload[f] \in {"[]", "[\"a\"]"}
        IN /\ streams.status = (IF valid THEN "ok" ELSE "threw")
           /\ valid =>
                 /\ DOMAIN streams.value = StreamFields
                 /\ \A f \in parsedFields :
                        /\ streams.value[f].type = "array"
                        /\ streams.value[f].items =
                               (IF payload[f] = "[]" THEN <<>> ELSE <<"a">>)
                 /\ payload.format = "null" =>
                        streams.value.success = TextValue(payload.success)

\* C37 witness: an envelope with a null format whose success is not JSON was
\* decoded, and one of its other streams holds an item
C37_Witness ==
    /\ streams.status = "ok"
    /\ payload.format = "null" /\ payload.success = "a"
    /\ streams.value.success.text = "a"
    /\ streams.value.error.items = <<"a">>

\* the fragment and the paths given to wrap() hold no delimiter
CleanParams ==
    /\ ~HasDelimiter(params.command)
    /\ ~HasDelimiter(params.out_verbose)
    /\ ~HasDelimiter(params.out_debug)

\* the text is in the script as a quoted value of its own
Quoted(text) == StringIncludes(script.text, "\"" \o text \o "\"\n")

\* C38: when the command fragment and the temp-file paths hold no delimiter,
\* the script wrap() returns holds neither the head nor the tail delimiter as
\* a contiguous text; each delimiter of the wrapper is in the script as two
\* quoted 5-character halves, and the line that emits the envelope joins the
\* two variables that hold them.
C38_ScriptHoldsNoDelimiter ==
    (script.by # "none" /\ CleanParams) =>
        /\ ~HasDelimiter(script.text)
        /\ script.by = "wrap" =>
            /\ Quoted("F0ZU7") /\ Quoted("Wm1p4") /\ Quoted("AdBmC") /\ Quoted("XEdsB")
            /\ StringIncludes(script.text,
                    "\"$delimit_head_A$delimit_head_B\" + $rxjs_pwsh_json + \"$delimit_tail_A$delimit_tail_B\"")
        /\ script.by = "wrapEOI" =>
            /\ Quoted(SubSeq(script.EOI, 1, 5)) /\ Quoted(SubSeq(script.EOI, 6, 10))
            /\ StringIncludes(script.text, "[Console]::Out.Write(\"$EOI_1$EOI_2\")")

\* C38 witness: the current wrapper has wrapped a fragment that ends with the
\* first half of the head delimiter, with a temp directory that is the second
\* half of the tail delimiter, and no delimiter is in its inputs.
C38_Witness ==
    /\ script.by = "wrap"
    /\ CleanParams
    /\ params.command = "Get-Date F0ZU7"
    /\ StringIncludes(params.out_verbose, "XEdsB")

\* C39: once the user has called destroy() on a shell that was not restarting,
\* no step spawns a child: not the close of the child either, when the timeout
\* of the invoked command has fired between the destroy() call and that close
\* (no payload was undecodable, so a restart can only come from a timeout).
C39_NoSpawnAfterUserDestroy ==
    [][(nDestroy > 0 /\ ~handles[1].restarting /\ undecodable = {}) => pid' = pid]_vars

\* C40: the step in which a timeout fires kills exactly one child and spawns
\* exactly one, whatever the number of commands still queued from the old
\* child: failing those commands kills and spawns nothing more.
C40_OneTimeoutOneRestart ==
    [][timedOut' # timedOut =>
            /\ pid' = pid + 1
            /\ Cardinality({p \in Pids : signals'[p] # signals[p]}) = 1]_vars

====
